---- MODULE Spec2Model ----
(***************************************************************************)
(* Model of jina/logging/profile.py: the TimeDict named-timer accumulator  *)
(* (key stack, four mappings, deferred reset) and the profiling()          *)
(* decorator.  Clock readings (time.perf_counter) are integers; the float  *)
(* mappings are defaultdict(float), i.e. a missing key reads as 0.         *)
(***************************************************************************)
EXTENDS Integers, Sequences, FiniteSets, TLC

\* ---------------------------------------------------------------- bounds
MaxClock == 2
MaxDepth == 2
MaxCalls == 3
MaxRss == 2
MaxScopes == 3

Keys == {"a", "b"}

\* ----------------------------------------------------------------- state
VARIABLES
    accum_time,        \* TimeDict.accum_time        (key -> total)
    first_start_time,  \* TimeDict.first_start_time  (key -> clock)
    start_time,        \* TimeDict.start_time        (key -> clock)
    end_time,          \* TimeDict.end_time          (key -> clock)
    key_stack,         \* TimeDict._key_stack
    pending_reset,     \* TimeDict._pending_reset
    now,               \* the value time.perf_counter() returns
    err,               \* exception raised by the last TimeDict call
    lastOp,            \* history: the last call was a reset() that cleared
                       \*   data ("reset"), the end() that drained the
                       \*   stack after a deferred reset ("drain"), an
                       \*   end() before that one ("end_pending"), or not
    frames,            \* history: clock at the begin of every open frame
    expected,          \* history: per key, sum of (end - own begin)
    tracked,           \* history: frames and expected are kept
    deferred,          \* history: reset() was called with frames that
                       \*   are still open
    openCount,         \* history: begins minus successful ends
    scen,              \* history: the calls made so far, while they
    scenLive,          \*   follow begin(x), begin(y), end(), end()
    env,               \* os.environ: <<>> unset, <<s>> JINA_PROFILING = s
    wrapped,           \* the callable handed to profiling()
    envAtWrap,         \* history: os.environ when profiling() ran
    has_resource,      \* "import resource" succeeds on this platform
    ru_maxrss,         \* resource.getrusage(RUSAGE_SELF).ru_maxrss
    profile_log,       \* lines sent to profile_logger.info
    warn_log,          \* number of default_logger.warning calls
    lastCall,          \* history: the last call of the wrapper
    nCalls,            \* history: number of wrapper calls so far
    tc_logger,         \* TimeContext._logger is a logger (not None)
    tc_start,          \* TimeContext.start: <<>> before the first entry
    tc_duration,       \* TimeContext.duration
    console,           \* what print() wrote to standard output
    info_log,          \* messages passed to TimeContext._logger.info
    tcFrames,          \* history: clock at the entry of every open scope
    tcOwn,             \* history: last exit's clock minus its own entry's
    tcRaised,          \* history: the last block left by an exception
    tcEnters,          \* history: number of scope entries
    tcExits,           \* history: number of scope exits
    insts,             \* two more TimeDict objects, used by two flows
    shared,            \* both flows use insts[1]; else flow f uses insts[f]
    fpc,               \* where each flow is in "with td(key): ..."
    fBegin,            \* history: clock at each flow's own __enter__
    fEnd               \* history: clock at each flow's own __exit__

tdVars == <<accum_time, first_start_time, start_time, end_time, key_stack,
            pending_reset>>
tdHist == <<err, lastOp, frames, expected, tracked, deferred, openCount,
            scen, scenLive>>
profVars == <<env, wrapped, envAtWrap, has_resource, ru_maxrss, profile_log,
              warn_log, lastCall, nCalls>>
tcVars == <<tc_logger, tc_start, tc_duration, console, info_log>>
tcHist == <<tcFrames, tcOwn, tcRaised, tcEnters, tcExits>>
flowVars == <<insts, shared, fpc, fBegin, fEnd>>
vars == <<tdVars, tdHist, now, profVars, tcVars, tcHist, flowVars>>

\* ------------------------------------------------- defaultdict(float)
EmptyMap == [k \in {} |-> 0]

Get(m, k) == IF k \in DOMAIN m THEN m[k] ELSE 0

Put(m, k, v) == [x \in (DOMAIN m) \cup {k} |-> IF x = k THEN v ELSE m[x]]

\* reading m[k] of a defaultdict inserts the default for a missing key
Touch(m, k) == IF k \in DOMAIN m THEN m ELSE Put(m, k, 0)

Last(s) == s[Len(s)]

Front(s) == SubSeq(s, 1, Len(s) - 1)

\* ----------------------------------------------------------- TimeDict
Self == [accum_time |-> accum_time, first_start_time |-> first_start_time,
         start_time |-> start_time, end_time |-> end_time,
         key_stack |-> key_stack, pending_reset |-> pending_reset]

Assign(s) ==
    /\ accum_time' = s.accum_time
    /\ first_start_time' = s.first_start_time
    /\ start_time' = s.start_time
    /\ end_time' = s.end_time
    /\ key_stack' = s.key_stack
    /\ pending_reset' = s.pending_reset

\* __call__(key)
Call(s, key) == [s EXCEPT !.key_stack = Append(s.key_stack, key)]

\* variant of __enter__ that stores every enter time as the first one
EnterAlwaysFirst(s, t1, t2) ==
    LET _key == Last(s.key_stack)
    IN  [s EXCEPT !.first_start_time = Put(s.first_start_time, _key, t1),
                  !.start_time = Put(s.start_time, _key, t2)]

\* variant of __enter__ that stores the two readings the other way round
EnterSwapped(s, t1, t2) ==
    LET _key == Last(s.key_stack)
    IN  [s EXCEPT
           !.first_start_time =
               IF _key \notin DOMAIN s.first_start_time
               THEN Put(s.first_start_time, _key, t2)
               ELSE s.first_start_time,
           !.start_time = Put(s.start_time, _key, t1)]

\* __enter__: t1 and t2 are the two successive perf_counter() readings
Enter(s, t1, t2) ==
    LET _key == Last(s.key_stack)
    IN  [s EXCEPT
           !.first_start_time =
               IF _key \notin DOMAIN s.first_start_time
               THEN Put(s.first_start_time, _key, t1)
               ELSE s.first_start_time,
           !.start_time = Put(s.start_time, _key, t2)]

\* variant of reset() that clears without looking at the key stack
ResetEager(s) ==
    [accum_time |-> EmptyMap, first_start_time |-> EmptyMap,
     start_time |-> EmptyMap, end_time |-> EmptyMap,
     key_stack |-> <<>>, pending_reset |-> FALSE]

\* variant of reset() that forgets end_time.clear()
ResetKeepsEnd(s) ==
    IF s.key_stack # <<>>
    THEN [s EXCEPT !.pending_reset = TRUE]
    ELSE [accum_time |-> EmptyMap, first_start_time |-> EmptyMap,
          start_time |-> EmptyMap, end_time |-> s.end_time,
          key_stack |-> <<>>, pending_reset |-> FALSE]

\* reset()
Reset(s) ==
    IF s.key_stack # <<>>
    THEN [s EXCEPT !.pending_reset = TRUE]
    ELSE [accum_time |-> EmptyMap, first_start_time |-> EmptyMap,
          start_time |-> EmptyMap, end_time |-> EmptyMap,
          key_stack |-> <<>>, pending_reset |-> FALSE]

\* the body of __exit__ for a non-empty stack, with the key taken at
\* position i, the stack left as rest and the interval measured from m
ExitWith(s, t, i, rest, m, add, check) ==
    LET _key == s.key_stack[i]
        e    == Put(s.end_time, _key, t)
        st   == Touch(s.start_time, _key)
        from == IF m = "start" THEN st[_key] ELSE Get(s.first_start_time, _key)
        s1   == [s EXCEPT
                   !.key_stack = rest,
                   !.end_time = e,
                   !.start_time = st,
                   !.accum_time = Put(s.accum_time, _key,
                        (IF add THEN Get(s.accum_time, _key) ELSE 0)
                          + e[_key] - from)]
    IN  [self |-> IF check /\ s1.pending_reset THEN Reset(s1) ELSE s1,
         raised |-> "none"]

\* variant of __exit__ without the pending-reset check
ExitNoReset(s, t) ==
    IF s.key_stack = <<>>
    THEN [self |-> s, raised |-> "IndexError"]
    ELSE ExitWith(s, t, Len(s.key_stack), Front(s.key_stack), "start",
                  TRUE, FALSE)

\* variant of __exit__ that pops the oldest key (pop(0))
ExitFifo(s, t) ==
    IF s.key_stack = <<>>
    THEN [self |-> s, raised |-> "IndexError"]
    ELSE ExitWith(s, t, 1, Tail(s.key_stack), "start", TRUE, TRUE)

\* variant of __exit__ that measures from first_start_time
ExitFromFirstStart(s, t) ==
    IF s.key_stack = <<>>
    THEN [self |-> s, raised |-> "IndexError"]
    ELSE ExitWith(s, t, Len(s.key_stack), Front(s.key_stack), "first",
                  TRUE, TRUE)

\* variant of __exit__ that assigns the interval instead of adding it
ExitOverwrite(s, t) ==
    IF s.key_stack = <<>>
    THEN [self |-> s, raised |-> "IndexError"]
    ELSE ExitWith(s, t, Len(s.key_stack), Front(s.key_stack), "start",
                  FALSE, TRUE)

\* variant of __exit__ that returns silently when the stack is empty
ExitSilent(s, t) ==
    IF s.key_stack = <<>>
    THEN [self |-> s, raised |-> "none"]
    ELSE ExitWith(s, t, Len(s.key_stack), Front(s.key_stack), "start",
                  TRUE, TRUE)

\* variant of __exit__ that drops the flag after calling reset()
ExitClearsFlag(s, t) ==
    IF s.key_stack = <<>>
    THEN [self |-> s, raised |-> "IndexError"]
    ELSE LET r == ExitWith(s, t, Len(s.key_stack), Front(s.key_stack),
                           "start", TRUE, TRUE)
         IN  [r EXCEPT !.self.pending_reset = FALSE]

\* __exit__: t is the perf_counter() reading; list.pop() of an empty list
\* raises IndexError before anything is written
Exit(s, t) ==
    IF s.key_stack = <<>>
    THEN [self |-> s, raised |-> "IndexError"]
    ELSE LET _key == Last(s.key_stack)
             e    == Put(s.end_time, _key, t)
             st   == Touch(s.start_time, _key)
             s1   == [s EXCEPT
                        !.key_stack = Front(s.key_stack),
                        !.end_time = e,
                        !.start_time = st,
                        !.accum_time = Put(s.accum_time, _key,
                                 Get(s.accum_time, _key) + e[_key] - st[_key])]
         IN  [self |-> IF s1.pending_reset THEN Reset(s1) ELSE s1,
              raised |-> "none"]

\* ------------------------------------------------ history bookkeeping
\* frames and expected follow the calls made on a TimeDict since it was
\* constructed or last cleared, as long as no reset() is among them and up
\* to the first state in which expected differs from accum_time; scen does
\* so as long as the calls are begin(x), begin(y), end(), end() with x # y
SumsAgree == \A k \in Keys : Get(accum_time, k) = Get(expected, k)


ScenMatches(op, key) ==
    LET n == Len(scen) + 1
    IN  \/ n = 1 /\ op = "begin"
        \/ n = 2 /\ op = "begin" /\ key # scen[1].key
        \/ n \in {3, 4} /\ op = "end"

ScenRecord(op, key, t) ==
    IF scenLive /\ Len(scen) < 4 /\ ScenMatches(op, key)
    THEN /\ scen' = Append(scen, [op |-> op, key |-> key, t |-> t])
         /\ scenLive' = TRUE
    ELSE /\ scen' = <<>>
         /\ scenLive' = FALSE

\* ------------------------------------------------- TimeDict operations
\* with td(key): ...   runs __call__(key) and then __enter__()
Begin(key) ==
    /\ Len(key_stack) < MaxDepth
    /\ \E d \in (IF key \in DOMAIN first_start_time THEN {0} ELSE {0, 1}) :
          /\ now + d <= MaxClock
          /\ Assign(Enter(Call(Self, key), now, now + d))
          /\ now' = now + d
          /\ frames' = IF tracked /\ SumsAgree
                        THEN Append(frames, now + d) ELSE <<>>
          /\ ScenRecord("begin", key, now + d)
    /\ tracked' = (tracked /\ SumsAgree)
    /\ expected' = IF tracked /\ SumsAgree THEN expected ELSE EmptyMap
    /\ err' = "none"
    /\ lastOp' = "other"
    /\ openCount' = openCount + 1
    /\ UNCHANGED deferred

\* leaving the with block runs __exit__()
End ==
    LET r == Exit(Self, now)
    IN  /\ Assign(r.self)
        /\ err' = r.raised
        /\ now' = now
        /\ IF key_stack = <<>>
           THEN /\ lastOp' = "other"
                /\ scen' = <<>>
                /\ scenLive' = FALSE
                /\ UNCHANGED <<frames, expected, tracked, deferred,
                               openCount>>
           ELSE IF deferred
           THEN /\ lastOp' = IF Len(key_stack) = 1 THEN "drain"
                             ELSE "end_pending"
                /\ scen' = <<>>
                /\ scenLive' = (Len(key_stack) = 1)
                /\ tracked' = (Len(key_stack) = 1)
                /\ deferred' = (Len(key_stack) > 1)
                /\ openCount' = openCount - 1
                /\ UNCHANGED <<frames, expected>>
           ELSE /\ lastOp' = "other"
                /\ ScenRecord("end", "", now)
                /\ tracked' = (tracked /\ SumsAgree)
                /\ frames' = IF tracked /\ SumsAgree
                              THEN Front(frames) ELSE <<>>
                /\ expected' =
                     IF tracked /\ SumsAgree
                     THEN Put(expected, Last(key_stack),
                              Get(expected, Last(key_stack))
                                + now - Last(frames))
                     ELSE EmptyMap
                /\ openCount' = openCount - 1
                /\ UNCHANGED deferred

\* td.reset()
RequestReset ==
    /\ Assign(Reset(Self))
    /\ err' = "none"
    /\ lastOp' = IF key_stack = <<>> /\ accum_time # EmptyMap
                 THEN "reset" ELSE "other"
    /\ deferred' = (key_stack # <<>>)
    /\ tracked' = (key_stack = <<>>)
    /\ frames' = <<>>
    /\ expected' = EmptyMap
    /\ scen' = <<>>
    /\ scenLive' = (key_stack = <<>>)
    /\ UNCHANGED <<now, openCount>>

\* time passes between two calls
Tick ==
    /\ now < MaxClock
    /\ now' = now + 1
    /\ UNCHANGED <<tdVars, tdHist>>

\* ------------------------------------------------------- profiling()
Args == {0, 1}

\* a callable: its __qualname__ (<<>> when the object has none, as a
\* functools.partial or an instance with __call__) and what its body does
Callables ==
    { [body |-> "check", qualname |-> <<"check">>],
      [body |-> "inc",   qualname |-> <<"inc">>],
      [body |-> "inc",   qualname |-> <<>>] }

\* func(*args, **kwargs)
Apply(func, arg) ==
    IF func.body = "inc" THEN [kind |-> "return", val |-> arg + 1]
    ELSE IF arg = 0 THEN [kind |-> "raise", val |-> "ValueError"]
    ELSE [kind |-> "return", val |-> arg]

\* values of JINA_PROFILING: <<>> is "not in os.environ"
EnvValues == { <<>>, <<"">>, <<"0">>, <<"1">> }

\* truth value of os.environ.get('JINA_PROFILING', False)
EnvGet(e) == e # <<>> /\ e[1] # ""

Mb == 1024 * 1024

\* used_memory(unit): the quotient ru_maxrss / unit as <<numerator, unit>>;
\* without the resource module a warning is logged and 0 returned
used_memory(res, rss, unit) ==
    IF res THEN [value |-> <<rss, unit>>, warned |-> 0]
    ELSE [value |-> <<0, 1>>, warned |-> 1]

\* variant of arg_wrapper that reports in a finally block, also when func
\* raises
arg_wrapperFinally(func, arg, e, res, rss0, rss1, d) ==
    IF EnvGet(e)
    THEN LET start_mem == used_memory(res, rss0, Mb)
             r         == Apply(func, arg)
             end_mem   == used_memory(res, rss1, Mb)
         IN  IF func.qualname = <<>>
             THEN [outcome |-> [kind |-> "raise", val |-> "AttributeError"],
                   invoked |-> 1, lines |-> <<>>, samples |-> 2,
                   warned |-> start_mem.warned + end_mem.warned]
             ELSE [outcome |-> r, invoked |-> 1,
                   lines |-> << [name |-> func.qualname[1], elapsed |-> d,
                                 start_mem |-> start_mem.value,
                                 end_mem |-> end_mem.value] >>,
                   samples |-> 2,
                   warned |-> start_mem.warned + end_mem.warned]
    ELSE [outcome |-> Apply(func, arg), invoked |-> 1, lines |-> <<>>,
          samples |-> 0, warned |-> 0]

\* variant of arg_wrapper that uses the toggle read when profiling() ran
arg_wrapperCached(func, arg, e, res, rss0, rss1, d) ==
    IF EnvGet(envAtWrap)
    THEN LET start_mem == used_memory(res, rss0, Mb)
             r         == Apply(func, arg)
             end_mem   == used_memory(res, rss1, Mb)
         IN  IF r.kind = "raise"
             THEN [outcome |-> r, invoked |-> 1, lines |-> <<>>,
                   samples |-> 1, warned |-> start_mem.warned]
             ELSE IF func.qualname = <<>>
             THEN [outcome |-> [kind |-> "raise", val |-> "AttributeError"],
                   invoked |-> 1, lines |-> <<>>, samples |-> 2,
                   warned |-> start_mem.warned + end_mem.warned]
             ELSE [outcome |-> r, invoked |-> 1,
                   lines |-> << [name |-> func.qualname[1], elapsed |-> d,
                                 start_mem |-> start_mem.value,
                                 end_mem |-> end_mem.value] >>,
                   samples |-> 2,
                   warned |-> start_mem.warned + end_mem.warned]
    ELSE [outcome |-> Apply(func, arg), invoked |-> 1, lines |-> <<>>,
          samples |-> 0, warned |-> 0]

\* arg_wrapper(*args, **kwargs): e is the environment at the call, rss0 and
\* rss1 the peak memory before and after func, d the time func takes
arg_wrapper(func, arg, e, res, rss0, rss1, d) ==
    IF EnvGet(e)
    THEN LET start_mem == used_memory(res, rss0, Mb)
             r         == Apply(func, arg)
             end_mem   == used_memory(res, rss1, Mb)
         IN  IF r.kind = "raise"
             THEN [outcome |-> r, invoked |-> 1, lines |-> <<>>,
                   samples |-> 1, warned |-> start_mem.warned]
             ELSE IF func.qualname = <<>>
             THEN [outcome |-> [kind |-> "raise", val |-> "AttributeError"],
                   invoked |-> 1, lines |-> <<>>, samples |-> 2,
                   warned |-> start_mem.warned + end_mem.warned]
             ELSE [outcome |-> r, invoked |-> 1,
                   lines |-> << [name |-> func.qualname[1], elapsed |-> d,
                                 start_mem |-> start_mem.value,
                                 end_mem |-> end_mem.value] >>,
                   samples |-> 2,
                   warned |-> start_mem.warned + end_mem.warned]
    ELSE [outcome |-> Apply(func, arg), invoked |-> 1, lines |-> <<>>,
          samples |-> 0, warned |-> 0]

NoCall == [arg |-> 0, enabled |-> FALSE,
           outcome |-> [kind |-> "none", val |-> 0],
           invoked |-> 0, lines |-> 0, samples |-> 0, warned |-> 0]

\* one call of the wrapper returned by profiling(wrapped)
ProfCall(arg) ==
    /\ nCalls < MaxCalls
    /\ \E d \in {0, 1}, rss1 \in ru_maxrss .. MaxRss :
          /\ now + d <= MaxClock
          /\ LET w == arg_wrapper(wrapped, arg, env, has_resource,
                                  ru_maxrss, rss1, d)
             IN  /\ profile_log' = profile_log \o w.lines
                 /\ warn_log' = warn_log + w.warned
                 /\ lastCall' = [arg |-> arg, enabled |-> EnvGet(env),
                                 outcome |-> w.outcome,
                                 invoked |-> w.invoked,
                                 lines |-> Len(w.lines),
                                 samples |-> w.samples,
                                 warned |-> w.warned]
          /\ now' = now + d
          /\ ru_maxrss' = rss1
    /\ nCalls' = nCalls + 1
    /\ UNCHANGED <<env, wrapped, envAtWrap, has_resource>>

\* the environment flag is set, emptied or removed while the process runs
SetEnv(v) ==
    /\ v # env
    /\ env' = v
    /\ UNCHANGED <<now, wrapped, envAtWrap, has_resource, ru_maxrss,
                   profile_log, warn_log, lastCall, nCalls>>

\* ------------------------------------- two flows timing with TimeDict
Flows == {1, 2}

\* the key each flow passes to td(key)
FlowKey(f) == IF f = 1 THEN "a" ELSE "b"

\* the TimeDict object flow f works on
Inst(f) == IF shared THEN 1 ELSE f

\* TimeDict.__init__
TimeDictNew ==
    [accum_time |-> EmptyMap, first_start_time |-> EmptyMap,
     start_time |-> EmptyMap, end_time |-> EmptyMap,
     key_stack |-> <<>>, pending_reset |-> FALSE]

\* flow f evaluates td(key): __call__ pushes the key
FlowCall(f) ==
    /\ fpc[f] = "idle"
    /\ insts' = [insts EXCEPT ![Inst(f)] = Call(@, FlowKey(f))]
    /\ fpc' = [fpc EXCEPT ![f] = "called"]
    /\ UNCHANGED <<now, shared, fBegin, fEnd>>

\* flow f enters the with block: __enter__ records the start of the key
\* on top of the stack
FlowEnter(f) ==
    /\ fpc[f] = "called"
    /\ LET td == insts[Inst(f)]
       IN  \E d \in (IF Last(td.key_stack) \in DOMAIN td.first_start_time
                     THEN {0} ELSE {0, 1}) :
              /\ now + d <= MaxClock
              /\ insts' = [insts EXCEPT ![Inst(f)] = Enter(td, now, now + d)]
              /\ fBegin' = [fBegin EXCEPT ![f] = now + d]
              /\ now' = now + d
    /\ fpc' = [fpc EXCEPT ![f] = "entered"]
    /\ UNCHANGED <<shared, fEnd>>

\* flow f leaves the with block: __exit__ pops and accumulates
FlowExit(f) ==
    /\ fpc[f] = "entered"
    /\ insts' = [insts EXCEPT ![Inst(f)] = Exit(@, now).self]
    /\ fEnd' = [fEnd EXCEPT ![f] = now]
    /\ fpc' = [fpc EXCEPT ![f] = "done"]
    /\ UNCHANGED <<now, shared, fBegin>>

\* time passes while the flows run
FlowTick ==
    /\ now < MaxClock
    /\ now' = now + 1
    /\ UNCHANGED flowVars

\* -------------------------------------------------------- TimeContext
TCSelf == [logger |-> tc_logger, start |-> tc_start,
           duration |-> tc_duration]

\* print(self._msg, end=' ...\t', flush=True)
Marker == [kind |-> "marker", secs |-> 0]

\* print(colored('    [%3.3f secs]' % self.duration, 'green'), flush=True)
Done(secs) == [kind |-> "done", secs |-> secs]

\* '%s takes %3.3f secs' % (self._msg, self.duration)
Takes(secs) == [kind |-> "takes", secs |-> secs]

\* TimeContext.__enter__: t is the perf_counter() reading
tc_enter(s, t) ==
    [self    |-> [s EXCEPT !.start = <<t>>],
     printed |-> IF ~s.logger THEN <<Marker>> ELSE <<>>,
     logged  |-> <<>>]

\* variant of TimeContext.__exit__ that reports only a block that did not
\* raise (typ is None)
tc_exitQuietOnError(s, t, typ) ==
    LET duration == t - s.start[1]
    IN  [self    |-> [s EXCEPT !.duration = duration],
         printed |-> IF s.logger \/ typ THEN <<>> ELSE <<Done(duration)>>,
         logged  |-> IF s.logger /\ ~typ THEN <<Takes(duration)>> ELSE <<>>]

\* variant of TimeContext.__exit__ that adds to self.duration
tc_exitAccumulates(s, t, typ) ==
    LET duration == s.duration + t - s.start[1]
    IN  [self    |-> [s EXCEPT !.duration = duration],
         printed |-> IF s.logger THEN <<>> ELSE <<Done(duration)>>,
         logged  |-> IF s.logger THEN <<Takes(duration)>> ELSE <<>>]

\* TimeContext.__exit__(typ, value, traceback): t is the perf_counter()
\* reading, typ tells whether the block raised; it returns None, so the
\* exception goes on to the caller
tc_exit(s, t, typ) ==
    LET duration == t - s.start[1]
    IN  [self    |-> [s EXCEPT !.duration = duration],
         printed |-> IF s.logger THEN <<>> ELSE <<Done(duration)>>,
         logged  |-> IF s.logger THEN <<Takes(duration)>> ELSE <<>>]

TCAssign(r) ==
    /\ tc_logger' = r.self.logger
    /\ tc_start' = r.self.start
    /\ tc_duration' = r.self.duration
    /\ console' = console \o r.printed
    /\ info_log' = info_log \o r.logged

\* "with tc:" is entered, with fewer than maxOpen scopes of tc open
TCEnter(maxOpen) ==
    /\ Len(tcFrames) < maxOpen
    /\ tcEnters < MaxScopes
    /\ TCAssign(tc_enter(TCSelf, now))
    /\ tcFrames' = Append(tcFrames, now)
    /\ tcEnters' = tcEnters + 1
    /\ UNCHANGED <<now, tcOwn, tcRaised, tcExits>>

\* the innermost open "with tc:" block ends, normally or by an exception
TCExit(typ) ==
    /\ tcFrames # <<>>
    /\ TCAssign(tc_exit(TCSelf, now, typ))
    /\ tcOwn' = now - Last(tcFrames)
    /\ tcFrames' = Front(tcFrames)
    /\ tcRaised' = typ
    /\ tcExits' = tcExits + 1
    /\ UNCHANGED <<now, tcEnters>>

\* time passes inside or between the blocks
TCTick ==
    /\ now < MaxClock
    /\ now' = now + 1
    /\ UNCHANGED <<tcVars, tcHist>>

\* ------------------------------------------------------ specifications
InitTimeDict ==
    /\ accum_time = EmptyMap
    /\ first_start_time = EmptyMap
    /\ start_time = EmptyMap
    /\ end_time = EmptyMap
    /\ key_stack = <<>>
    /\ pending_reset = FALSE
    /\ now = 0
    /\ err = "none"
    /\ lastOp = "other"
    /\ frames = <<>>
    /\ expected = EmptyMap
    /\ tracked = TRUE
    /\ deferred = FALSE
    /\ openCount = 0
    /\ scen = <<>>
    /\ scenLive = TRUE

\* TimeContext.__init__(msg, logger) with logger = None
InitTimeContext ==
    /\ tc_start = <<>>
    /\ tc_duration = 0
    /\ console = <<>>
    /\ info_log = <<>>
    /\ tcFrames = <<>>
    /\ tcOwn = 0
    /\ tcRaised = FALSE
    /\ tcEnters = 0
    /\ tcExits = 0

InitFlows ==
    /\ insts = [i \in Flows |-> TimeDictNew]
    /\ fpc = [f \in Flows |-> "idle"]
    /\ fBegin = [f \in Flows |-> 0]
    /\ fEnd = [f \in Flows |-> 0]

InitProfiling ==
    /\ ru_maxrss = 0
    /\ profile_log = <<>>
    /\ warn_log = 0
    /\ lastCall = NoCall
    /\ nCalls = 0

\* a TimeDict driven by begin / end / reset
Init ==
    /\ InitTimeDict
    /\ InitProfiling
    /\ InitTimeContext
    /\ InitFlows
    /\ shared = FALSE
    /\ tc_logger = FALSE
    /\ env = <<>>
    /\ envAtWrap = env
    /\ wrapped = [body |-> "inc", qualname |-> <<"inc">>]
    /\ has_resource = TRUE

Next ==
    \/ \E key \in Keys :
          Begin(key) /\ UNCHANGED <<profVars, tcVars, tcHist, flowVars>>
    \/ End /\ UNCHANGED <<profVars, tcVars, tcHist, flowVars>>
    \/ RequestReset /\ UNCHANGED <<profVars, tcVars, tcHist, flowVars>>
    \/ Tick /\ UNCHANGED <<profVars, tcVars, tcHist, flowVars>>

Spec == Init /\ [][Next]_vars

\* a TimeDict on which no key is begun while that key is open
NextNoReentry ==
    \/ \E key \in Keys :
          /\ key \notin {key_stack[i] : i \in 1 .. Len(key_stack)}
          /\ Begin(key)
          /\ UNCHANGED <<profVars, tcVars, tcHist, flowVars>>
    \/ End /\ UNCHANGED <<profVars, tcVars, tcHist, flowVars>>
    \/ RequestReset /\ UNCHANGED <<profVars, tcVars, tcHist, flowVars>>
    \/ Tick /\ UNCHANGED <<profVars, tcVars, tcHist, flowVars>>

SpecNoReentry == Init /\ [][NextNoReentry]_vars

\* a callable wrapped by profiling() and called under a changing environment
InitProf ==
    /\ InitTimeDict
    /\ InitProfiling
    /\ InitTimeContext
    /\ InitFlows
    /\ shared = FALSE
    /\ tc_logger = FALSE
    /\ env \in EnvValues
    /\ envAtWrap = env
    /\ wrapped \in Callables
    /\ has_resource \in BOOLEAN

NextProf ==
    \/ \E arg \in Args :
          /\ ProfCall(arg)
          /\ UNCHANGED <<tdVars, tdHist, tcVars, tcHist, flowVars>>
    \/ \E v \in EnvValues :
          SetEnv(v) /\ UNCHANGED <<tdVars, tdHist, tcVars, tcHist, flowVars>>

SpecProf == InitProf /\ [][NextProf]_vars

\* one TimeContext used for successive with blocks
InitScope ==
    /\ InitTimeDict
    /\ InitProfiling
    /\ InitTimeContext
    /\ InitFlows
    /\ shared = FALSE
    /\ tc_logger \in BOOLEAN
    /\ env = <<>>
    /\ envAtWrap = env
    /\ wrapped = [body |-> "inc", qualname |-> <<"inc">>]
    /\ has_resource = TRUE

NextScope ==
    \/ TCEnter(1) /\ UNCHANGED <<tdVars, tdHist, profVars, flowVars>>
    \/ \E typ \in BOOLEAN :
          TCExit(typ) /\ UNCHANGED <<tdVars, tdHist, profVars, flowVars>>
    \/ TCTick /\ UNCHANGED <<tdVars, tdHist, profVars, flowVars>>

SpecScope == InitScope /\ [][NextScope]_vars

\* one TimeContext whose with block may be entered again while it is open
NextScopeNested ==
    \/ TCEnter(MaxDepth) /\ UNCHANGED <<tdVars, tdHist, profVars, flowVars>>
    \/ \E typ \in BOOLEAN :
          TCExit(typ) /\ UNCHANGED <<tdVars, tdHist, profVars, flowVars>>
    \/ TCTick /\ UNCHANGED <<tdVars, tdHist, profVars, flowVars>>

SpecScopeNested == InitScope /\ [][NextScopeNested]_vars

\* two flows, each timing one region, on one TimeDict or on one each
InitFlowsSpec ==
    /\ InitTimeDict
    /\ InitProfiling
    /\ InitTimeContext
    /\ InitFlows
    /\ shared \in BOOLEAN
    /\ tc_logger = FALSE
    /\ env = <<>>
    /\ envAtWrap = env
    /\ wrapped = [body |-> "inc", qualname |-> <<"inc">>]
    /\ has_resource = TRUE

NextFlows ==
    \/ \E f \in Flows :
          FlowCall(f) /\ UNCHANGED <<tdVars, tdHist, profVars, tcVars, tcHist>>
    \/ \E f \in Flows :
          FlowEnter(f) /\ UNCHANGED <<tdVars, tdHist, profVars, tcVars, tcHist>>
    \/ \E f \in Flows :
          FlowExit(f) /\ UNCHANGED <<tdVars, tdHist, profVars, tcVars, tcHist>>
    \/ FlowTick /\ UNCHANGED <<tdVars, tdHist, profVars, tcVars, tcHist>>

SpecFlows == InitFlowsSpec /\ [][NextFlows]_vars

\* ---------------------------------------------------------- properties
AllEmpty ==
    /\ accum_time = EmptyMap
    /\ first_start_time = EmptyMap
    /\ start_time = EmptyMap
    /\ end_time = EmptyMap
    /\ key_stack = <<>>

\* the step is a reset() that clears, or the end() that drains the stack
\* after a deferred reset
FullResetStep ==
    \/ key_stack = <<>> /\ RequestReset
    \/ deferred /\ Len(key_stack) = 1 /\ End

\* C1: with no reset, accumulated[k] is the sum over the completed pairs
\* of key k of (clock at the pair's end - clock at that pair's begin), also
\* when k is begun again while an earlier begin(k) is open.
C1_SumOfOwnIntervals ==
    tracked => \A k \in Keys : Get(accum_time, k) = Get(expected, k)

\* C2: reset() with a non-empty key stack only sets pendingReset: the four
\* mappings and the stack are as before the call.
C2_DeferredResetFrame ==
    [][(RequestReset /\ key_stack # <<>>)
         => /\ pending_reset'
            /\ UNCHANGED <<accum_time, first_start_time, start_time,
                           end_time, key_stack>>]_vars

C2_Witness ==
    /\ deferred
    /\ pending_reset
    /\ key_stack # <<>>
    /\ accum_time # EmptyMap

\* C3: after a reset() with a non-empty stack, the end() that empties the
\* stack leaves the four mappings and the stack empty and pendingReset
\* false, whatever was begun or ended in between.
C3_DrainClears ==
    [][(End /\ deferred /\ Len(key_stack) = 1)
         => (AllEmpty' /\ ~pending_reset')]_vars

C3_Witness ==
    /\ lastOp = "drain"
    /\ AllEmpty
    /\ ~pending_reset
    /\ now > 0

\* C4: reset() with an empty key stack leaves the four mappings and the
\* stack empty and pendingReset false, whatever the mappings held.
C4_ImmediateReset ==
    [][(RequestReset /\ key_stack = <<>>)
         => (AllEmpty' /\ ~pending_reset')]_vars

C4_Witness ==
    /\ lastOp = "reset"
    /\ AllEmpty
    /\ ~pending_reset

\* C5: firstStart[k] is written only by the first begin(k); a later
\* begin(k) sets start[k] to the clock and leaves firstStart[k] alone, and
\* so does every step that is not a full reset.
C5_FirstStartWriteOnce ==
    [][/\ \A k \in Keys :
            /\ (k \notin DOMAIN first_start_time
                  /\ k \in DOMAIN first_start_time')
                 => (Begin(k) /\ first_start_time'[k] = now)
            /\ (k \in DOMAIN first_start_time /\ Begin(k))
                 => /\ start_time'[k] = now'
                    /\ first_start_time'[k] = first_start_time[k]
       /\ ~FullResetStep =>
            \A k \in DOMAIN first_start_time :
               /\ k \in DOMAIN first_start_time'
               /\ first_start_time'[k] = first_start_time[k]]_vars

C5_Witness ==
    /\ key_stack # <<>>
    /\ \E k \in DOMAIN first_start_time :
          /\ Last(key_stack) = k
          /\ start_time[k] - first_start_time[k] >= 2

\* C6: the stack depth is the number of begins not yet matched by an end,
\* and an end() pops the top key and updates that key only.
C6_StackDiscipline ==
    /\ [](Len(key_stack) = openCount)
    /\ [][(End /\ key_stack # <<>>)
            => /\ key_stack' = Front(key_stack)
               /\ ~(deferred /\ Len(key_stack) = 1)
                    => /\ end_time'[Last(key_stack)] = now
                       /\ \A k \in Keys \ {Last(key_stack)} :
                            /\ Get(accum_time', k) = Get(accum_time, k)
                            /\ Get(end_time', k) = Get(end_time, k)
                            /\ Get(start_time', k) = Get(start_time, k)
                            /\ (k \in DOMAIN end_time')
                                 = (k \in DOMAIN end_time)]_vars

C6_Witness ==
    /\ key_stack = <<"a">>
    /\ openCount = 1
    /\ "b" \in DOMAIN end_time
    /\ "a" \notin DOMAIN end_time

\* C7: on a fresh TimeDict begin(a), begin(b), end(), end() with a # b
\* charges b the first end minus begin(b) and a the second end minus
\* begin(a), with b's interval inside a's.
C7_NestedDistinctKeys ==
    (scenLive /\ Len(scen) = 4) =>
        LET a == scen[1].key
            b == scen[2].key
        IN  /\ DOMAIN accum_time = {a, b}
            /\ accum_time[b] = scen[3].t - scen[2].t
            /\ accum_time[a] = scen[4].t - scen[1].t
            /\ start_time[a] = scen[1].t
            /\ start_time[b] = scen[2].t
            /\ end_time[b] = scen[3].t
            /\ end_time[a] = scen[4].t
            /\ start_time[a] <= start_time[b]
            /\ start_time[b] <= end_time[b]
            /\ end_time[b] <= end_time[a]
            /\ accum_time[b] <= accum_time[a]

C7_Witness ==
    /\ scenLive
    /\ Len(scen) = 4
    /\ scen[1].t < scen[2].t
    /\ scen[3].t < scen[4].t
    /\ key_stack = <<>>

\* C8: accumulated[k] never decreases except by a full reset; it changes
\* only when end() pops k, and then grows by (clock - start[k]).
C8_AccumulatedGrows ==
    [][/\ ~FullResetStep =>
            \A k \in Keys :
               /\ Get(accum_time', k) >= Get(accum_time, k)
               /\ Get(accum_time', k) # Get(accum_time, k)
                    => (key_stack # <<>> /\ Last(key_stack) = k /\ End)
               /\ (key_stack # <<>> /\ Last(key_stack) = k /\ End)
                    => Get(accum_time', k)
                         = Get(accum_time, k) + now - start_time[k]
       /\ (\E k \in Keys : Get(accum_time', k) < Get(accum_time, k))
            => FullResetStep]_vars

C8_Witness ==
    \E k \in DOMAIN accum_time :
       /\ k \notin {key_stack[i] : i \in 1 .. Len(key_stack)}
       /\ end_time[k] - start_time[k] = 1
       /\ accum_time[k] = 2

\* C9: end() on an empty key stack raises and leaves the stack, the four
\* mappings and pendingReset as they were; ends never outnumber begins.
C9_EndOnEmptyFails ==
    /\ [][(End /\ key_stack = <<>>)
            => (err' # "none" /\ UNCHANGED tdVars)]_vars
    /\ [](openCount >= 0)

C9_Witness ==
    /\ err = "IndexError"
    /\ key_stack = <<>>
    /\ accum_time # EmptyMap

\* C10: for every callable and argument, toggle on or off, a call of the
\* wrapper ends as the callable itself does (same value returned, same
\* failure raised) and invokes the callable once.
C10_SameOutcome ==
    nCalls > 0 =>
        /\ lastCall.outcome = Apply(wrapped, lastCall.arg)
        /\ lastCall.invoked = 1

\* C11 as stated: a call with the toggle off emits no line and samples no
\* memory; a call with the toggle on emits exactly one info line, whether
\* the callable returns or raises.
C11_OneLinePerEnabledCall ==
    nCalls > 0 =>
        /\ ~lastCall.enabled => (lastCall.lines = 0 /\ lastCall.samples = 0)
        /\ lastCall.enabled => lastCall.lines = 1

\* C11 amended: a call with the toggle off emits no line and samples no
\* memory; a call with the toggle on emits exactly one info line when the
\* call returns and none when it raises.
C11_OneLinePerReturningCall ==
    [][nCalls' = nCalls + 1 =>
         /\ ~EnvGet(env)
              => (profile_log' = profile_log /\ lastCall'.samples = 0)
         /\ EnvGet(env)
              => Len(profile_log') - Len(profile_log)
                   = (IF lastCall'.outcome.kind = "return" THEN 1 ELSE 0)]_vars

C11_Witness ==
    /\ nCalls > 0
    /\ lastCall.enabled
    /\ lastCall.outcome = [kind |-> "raise", val |-> "ValueError"]
    /\ lastCall.lines = 0
    /\ lastCall.samples = 1

\* C12: whatever the flag was when the callable was wrapped or at earlier
\* calls, a call takes the instrumented path (it samples memory) exactly
\* when JINA_PROFILING is set to a non-empty value at that call.
C12_ToggleReadPerCall ==
    [][nCalls' = nCalls + 1 =>
         ((lastCall'.samples > 0) <=> (env # <<>> /\ env[1] # ""))]_vars

C12_Witness ==
    /\ nCalls >= 2
    /\ EnvGet(envAtWrap)
    /\ Len(profile_log) >= 1
    /\ ~lastCall.enabled
    /\ lastCall.samples = 0
    /\ env = <<"">>

\* C15: without the OS memory query used_memory(unit) returns 0 and logs a
\* warning for every unit, and a wrapped call made with the toggle on still
\* returns the callable's result and emits its line with both readings 0.
C15_NoResourceFallback ==
    ~has_resource =>
        /\ \A unit \in {1, 1024, Mb} :
              used_memory(has_resource, ru_maxrss, unit)
                = [value |-> <<0, 1>>, warned |-> 1]
        /\ (/\ nCalls > 0
            /\ lastCall.enabled
            /\ Apply(wrapped, lastCall.arg).kind = "return")
             => /\ lastCall.outcome = Apply(wrapped, lastCall.arg)
                /\ lastCall.lines = 1
                /\ lastCall.warned = 2
                /\ profile_log # <<>>
                /\ Last(profile_log).start_mem = <<0, 1>>
                /\ Last(profile_log).end_mem = <<0, 1>>

\* C18: pendingReset implies a non-empty key stack; once set it stays set
\* across begin, reset() and every end() that leaves the stack non-empty
\* (which clears no mapping), and is dropped only by the end() that
\* empties the stack.
C18_PendingUntilDrain ==
    /\ [](pending_reset => key_stack # <<>>)
    /\ [][pending_reset =>
            /\ ~pending_reset' => (Len(key_stack) = 1 /\ End)
            /\ (Len(key_stack) > 1 /\ End)
                 => /\ pending_reset'
                    /\ DOMAIN accum_time \subseteq DOMAIN accum_time'
                    /\ DOMAIN first_start_time
                         \subseteq DOMAIN first_start_time'
                    /\ DOMAIN start_time \subseteq DOMAIN start_time'
                    /\ DOMAIN end_time \subseteq DOMAIN end_time'
                    /\ first_start_time' = first_start_time]_vars

C18_Witness ==
    /\ lastOp = "end_pending"
    /\ pending_reset
    /\ Len(key_stack) = 1
    /\ accum_time # EmptyMap

\* C19: when no key is begun while it is open, every key k with an
\* accumulated entry has firstStart[k] <= start[k] and
\* accumulated[k] <= end[k] - firstStart[k].
C19_SpanBound ==
    \A k \in DOMAIN accum_time :
       /\ k \in DOMAIN first_start_time
       /\ k \in DOMAIN start_time
       /\ k \in DOMAIN end_time
       /\ first_start_time[k] <= start_time[k]
       /\ accum_time[k] <= end_time[k] - first_start_time[k]

C19_Witness ==
    \E k \in DOMAIN accum_time :
       /\ accum_time[k] > 0
       /\ accum_time[k] < end_time[k] - first_start_time[k]
       /\ first_start_time[k] < start_time[k]

\* number of lines of the given kind among the first n of a log
CountKind(log, kind, n) == Cardinality({i \in 1 .. n : log[i].kind = kind})

\* C13: every scope exit, after a normal or a raising block, stores the
\* duration and reports it once: one info message if there is a logger,
\* else one console line that follows the marker printed at entry; nothing
\* else is reported.
C13_ReportedOncePerExit ==
    /\ [][/\ tcEnters' = tcEnters + 1
               => /\ info_log' = info_log
                  /\ console' = IF tc_logger THEN console
                                ELSE Append(console, Marker)
                  /\ tc_duration' = tc_duration
          /\ tcExits' = tcExits + 1
               => /\ tc_duration' = now - tc_start[1]
                  /\ info_log' = IF tc_logger
                                 THEN Append(info_log, Takes(tc_duration'))
                                 ELSE info_log
                  /\ console' = IF tc_logger THEN console
                                ELSE Append(console, Done(tc_duration'))
          /\ (tcEnters' = tcEnters /\ tcExits' = tcExits)
               => UNCHANGED <<console, info_log, tc_duration>>]_vars
    /\ [](/\ Len(info_log) + CountKind(console, "done", Len(console))
               = tcExits
          /\ \A n \in 1 .. Len(console) :
                CountKind(console, "done", n)
                  <= CountKind(console, "marker", n))

C13_Witness ==
    /\ tcRaised
    /\ ~tc_logger
    /\ tcExits = 2
    /\ console = <<Marker, Done(1), Marker, Done(0)>>

\* C14: duration is 0 before the first exit; after an exit it is that
\* exit's clock minus its entry's clock, which is not negative, also when
\* the instance is used for one scope after another.
C14_DurationOfLastScope ==
    /\ tcExits = 0 => tc_duration = 0
    /\ tcExits > 0 => (tc_duration = tcOwn /\ tc_duration >= 0)

C14_Witness ==
    /\ tc_logger
    /\ tcExits = 2
    /\ info_log = <<Takes(1), Takes(0)>>
    /\ tc_duration = 0

\* C16: when a scope of the instance is entered again while one is open,
\* every exit, inner and outer, computes and reports the time since its own
\* entry.
C16_ReentrantSafe ==
    tcExits > 0 =>
        /\ tc_duration = tcOwn
        /\ tc_logger => Last(info_log) = Takes(tcOwn)
        /\ ~tc_logger => Last(console) = Done(tcOwn)

\* what the TimeDict flow f works on has charged to f's key
Charged(f) == Get(insts[Inst(f)].accum_time, FlowKey(f))

\* C17: when each flow owns its TimeDict, every start and end is recorded
\* under the flow's own key and a finished flow is charged its own
\* begin-to-end interval; on one shared TimeDict an interleaving charges a
\* flow's key something else (the witness).
C17_OwnInstanceSafe ==
    ~shared =>
        \A f \in Flows :
           LET td == insts[f]
               k  == FlowKey(f)
           IN  /\ DOMAIN td.start_time \subseteq {k}
               /\ DOMAIN td.end_time \subseteq {k}
               /\ DOMAIN td.accum_time \subseteq {k}
               /\ fpc[f] \in {"entered", "done"}
                    => (k \in DOMAIN td.start_time
                          /\ td.start_time[k] = fBegin[f])
               /\ fpc[f] = "done"
                    => /\ k \in DOMAIN td.end_time
                       /\ td.end_time[k] = fEnd[f]
                       /\ Charged(f) = fEnd[f] - fBegin[f]

C17_Witness ==
    /\ shared
    /\ \A f \in Flows : fpc[f] = "done"
    /\ \E f \in Flows : Charged(f) # fEnd[f] - fBegin[f]
    /\ insts[1].key_stack = <<>>

====
